---- MODULE Spec2Model ----
(***************************************************************************)
(* Event synchronisation cache of obsidian-events-calendar: EventCache     *)
(* (initialize / populate / addEvent / modifyEvent / fileUpdated /         *)
(* updateViews), modelled at the granularity of its await points.          *)
(* EventStore and the Calendar classes are not part of the sources at      *)
(* hand: they are modelled from the written specification (sections 4.3    *)
(* and 4.4).                                                               *)
(***************************************************************************)
EXTENDS Integers, Sequences, FiniteSets, TLC

VARIABLES sources, calendars, store, pkCounter, view, procs, last,
          callbacks, es, input, output

\* the state outside the cache's calendars and records: the subscribers, the
\* event store's indices taken alone, the argument and the result of a function
aux == <<callbacks, es, input, output>>

vars == <<sources, calendars, store, pkCounter, view, procs, last, aux>>

(* ---------------------------------------------------------------- bounds *)
MaxSources == 2
MaxView == 1
MaxPk == 2
MaxCallbacks == 2
MaxLen == 3
MaxVEvents == 2
MaxInflight == 2

(* ------------------------------------------------------------ universes *)
\* event.id absent (undefined)
NoId == "undefined"
\* location absent (null)
NoLoc == [path |-> "null", lineNumber |-> 0]
\* no calendar / no file in a frame
None == "none"

\* source descriptors of settings.calendarSources, named by the calendar id
\* they yield
Descs == {"a", "b", "r", "n", "u"}

TypeOf(d) ==
  CASE d = "a" -> "local"
    [] d = "b" -> "dailynote"
    [] d = "r" -> "ical"
    [] d = "n" -> "caldav"
    [] OTHER -> "bogus"

\* the types the initializer map has an entry for
InitializerTypes == {"local", "dailynote", "ical", "caldav"}

\* calendarInitializers[type](s): the calendar id, or None for null
InitializerResult(d) == IF TypeOf(d) = "caldav" THEN None ELSE d

\* calendar instanceof EditableCalendar
Editable(c) == c \in {"a", "b"}

Files == {"f", "g"}

\* EditableCalendar.containsPath
ContainsPath(c, p) == Editable(c) /\ p = "f"

Titles == <<"s", "t">>

Events == {[title |-> "s", id |-> NoId], [title |-> "t", id |-> "0"]}

RECURSIVE SeqsUpTo(_, _)
SeqsUpTo(S, n) ==
  IF n = 0 THEN {<<>>}
  ELSE LET shorter == SeqsUpTo(S, n - 1)
       IN  shorter \cup {Append(q, x) : q \in {p \in shorter : Len(p) = n - 1}, x \in S}

Views == SeqsUpTo(Events, MaxView)

Range(q) == {q[i] : i \in 1..Len(q)}

(* ------------------------------------------------- EventStore (spec 4.4) *)
\* The store is the sequence of its records, in insertion order:
\* [id, calendarId, location, event].

\* add(record): inserts under its id; an existing id is replaced
StoreAdd(st, rec) == Append(SelectSeq(st, LAMBDA r : r.id # rec.id), rec)

\* delete(id): removes the record; no-op if absent
StoreDelete(st, id) == SelectSeq(st, LAMBDA r : r.id # id)

RECURSIVE StoreDeleteAll(_, _)
StoreDeleteAll(st, ids) ==
  IF ids = <<>> THEN st ELSE StoreDeleteAll(StoreDelete(st, Head(ids)), Tail(ids))

StoreIds(st) == {st[i].id : i \in 1..Len(st)}

StoreHas(st, id) == id \in StoreIds(st)

\* the record stored under id (only where StoreHas)
StoreGet(st, id) == SelectSeq(st, LAMBDA r : r.id = id)[1]

NoEvent == [title |-> "null", id |-> NoId]

\* getEventById: the event, or null
GetEventById(st, id) == IF StoreHas(st, id) THEN StoreGet(st, id).event ELSE NoEvent

\* getEventsInFileAndCalendar(file, calendar)
GetEventsInFileAndCalendar(st, f, c) ==
  SelectSeq(st, LAMBDA r : r.calendarId = c /\ r.location # NoLoc /\ r.location.path = f)

\* eventsByCalendar.entries(): the calendar ids that own records
EventsByCalendarKeys(st) == {st[i].calendarId : i \in 1..Len(st)}

(* ------------------------------- EventStore, index by index (spec 4.4) *)
\* The same store with its access paths kept apart: es.store is the id-keyed
\* map (one record per id), es.byCalendar and es.byPath are the entries
\* reached by calendar id and by (calendar id, file path).
EmptyEs == [store |-> <<>>, byCalendar |-> <<>>, byPath |-> <<>>]

CalendarEntry(rec) == [calendarId |-> rec.calendarId, id |-> rec.id, event |-> rec.event]

PathEntry(rec) ==
  [calendarId |-> rec.calendarId, path |-> rec.location.path,
   id |-> rec.id, event |-> rec.event]

\* delete(id): removes the record from all three indices; no-op if absent
EsDelete(e, id) ==
  [store |-> SelectSeq(e.store, LAMBDA r : r.id # id),
   byCalendar |-> SelectSeq(e.byCalendar, LAMBDA x : x.id # id),
   byPath |-> SelectSeq(e.byPath, LAMBDA x : x.id # id)]

\* add(record) that overwrites the id-keyed map and leaves the entries the
\* replaced record had in the other two indices
EsAdd_KeepsOldEntries(e, rec) ==
  [store |-> Append(SelectSeq(e.store, LAMBDA r : r.id # rec.id), rec),
   byCalendar |-> Append(e.byCalendar, CalendarEntry(rec)),
   byPath |-> IF rec.location = NoLoc THEN e.byPath
              ELSE Append(e.byPath, PathEntry(rec))]

\* add(record): inserts under its id in every index; an existing id is replaced
EsAdd(e, rec) ==
  LET d == EsDelete(e, rec.id)
  IN  [store |-> Append(d.store, rec),
       byCalendar |-> Append(d.byCalendar, CalendarEntry(rec)),
       byPath |-> IF rec.location = NoLoc THEN d.byPath
                  ELSE Append(d.byPath, PathEntry(rec))]

(* ----------------------------------------------------- pure helpers *)
\* event.id || ...: undefined and "" are falsy
Falsy(id) == id = NoId \/ id = ""

RECURSIVE SortFrom(_, _)
SortFrom(evs, k) ==
  IF k > Len(Titles) THEN <<>>
  ELSE SelectSeq(evs, LAMBDA e : e.title = Titles[k]) \o SortFrom(evs, k + 1)

\* Array.prototype.sort by title.localeCompare: stable
SortByTitle(evs) == SortFrom(evs, 1)

\* eventsAreDifferent comparing the arrays as they are given
eventsAreDifferent_Unsorted(oldEvents, newEvents) ==
  IF Len(oldEvents) # Len(newEvents) THEN TRUE
  ELSE \E i \in 1..Len(oldEvents) : oldEvents[i] # newEvents[i]

\* eventsAreDifferent comparing the paired events by title only
eventsAreDifferent_TitlesOnly(oldEvents, newEvents) ==
  LET o == SortByTitle(oldEvents)
      n == SortByTitle(newEvents)
  IN  IF Len(o) # Len(n) THEN TRUE
      ELSE \E i \in 1..Len(o) : o[i].title # n[i].title

\* sort both by title, then compare lengths and the paired events
eventsAreDifferent(oldEvents, newEvents) ==
  LET o == SortByTitle(oldEvents)
      n == SortByTitle(newEvents)
  IN  IF Len(o) # Len(n) THEN TRUE
      ELSE \E i \in 1..Len(o) : o[i] # n[i]

\* generateId(): `${this.pkCounter++}`
generateId(pk) == ToString(pk)

\* how many of the events lack an id
RECURSIVE Lacking(_)
Lacking(pairs) ==
  IF pairs = <<>> THEN 0
  ELSE (IF Falsy(Head(pairs).event.id) THEN 1 ELSE 0) + Lacking(Tail(pairs))

\* newEvents.map(([event, location]) => ({event, id: event.id || generateId(), location}))
RECURSIVE WithIds(_, _)
WithIds(pairs, pk) ==
  IF pairs = <<>> THEN <<>>
  ELSE LET p == Head(pairs)
           mint == Falsy(p.event.id)
       IN  <<[event |-> p.event,
              id |-> IF mint THEN generateId(pk) ELSE p.event.id,
              location |-> p.location]>>
           \o WithIds(Tail(pairs), IF mint THEN pk + 1 ELSE pk)

\* entries.forEach(e => store.add({calendar, location, id, event}))
RECURSIVE StoreAddAll(_, _, _)
StoreAddAll(st, c, entries) ==
  IF entries = <<>> THEN st
  ELSE LET e == Head(entries)
       IN  StoreAddAll(StoreAdd(st, [id |-> e.id, calendarId |-> c,
                                     location |-> e.location, event |-> e.event]),
                       c, Tail(entries))

\* toEventInput(id, event): the presentation-format record
toEventInput(id, event) == [id |-> id, title |-> event.title]

\* the payload updateViews hands to every callback
updateViews(toRemove, toAdd) ==
  [toRemove |-> toRemove,
   toAdd |-> [i \in 1..Len(toAdd) |-> toEventInput(toAdd[i].id, toAdd[i].event)]]

\* the loop of updateViews over the callbacks, newest registration first
InvokeCallbacks_NewestFirst(cbs, payload) ==
  [i \in 1..Len(cbs) |-> [callback |-> cbs[Len(cbs) + 1 - i], payload |-> payload]]

\* for (const callback of this.updateViewCallbacks) { callback(payload); }
\* the calls made, in the order they are made
InvokeCallbacks(cbs, payload) ==
  [i \in 1..Len(cbs) |-> [callback |-> cbs[i], payload |-> payload]]

\* addEvent ending with this.updateViews([], [{event, id, location}])
AddEventCalls_UpdatesViews(cbs, id, event) ==
  InvokeCallbacks(cbs, updateViews(<<>>, <<[id |-> id, event |-> event]>>))

\* the callbacks addEvent invokes after this.store.add(...): it returns true
\* without a call of updateViews
AddEventCalls(cbs, id, event) == <<>>


(* ------------------------------------------- calendars (spec 4.3) *)
\* registered calendar ids in Map insertion order
Registered(c) == c \in Range(calendars)

\* the calendar's view of file "f", with each event's location
InFile(c) == [i \in 1..Len(view[c]) |->
                [event |-> view[c][i], location |-> [path |-> "f", lineNumber |-> i]]]

\* events a source holds outside the tracked file, without a location
Extras == {<<>>} \cup {<<[event |-> e, location |-> NoLoc]>> : e \in Events}

\* what calendar.getEvents() can return
GetEventsResults(c) ==
  IF Editable(c) THEN {InFile(c) \o x : x \in Extras} ELSE Extras

\* what calendar.getEventsInFile(file) returns
GetEventsInFile(c, f) == IF f = "f" THEN InFile(c) ELSE <<>>

(* ------------------------------------------------ suspended calls *)
\* One frame per call suspended at an await; `last` describes the call that
\* completed last (reset by the next step of anything else).
NoFrame ==
  [op |-> None, cal |-> None, file |-> None, cals |-> <<>>, oldEvents |-> <<>>,
   idsToRemove |-> <<>>, eventsToAdd |-> <<>>, eventId |-> None,
   event |-> NoEvent, loc |-> NoLoc, visited |-> <<>>,
   storeBefore |-> <<>>, repeat |-> FALSE, quiet |-> TRUE, overlapped |-> FALSE]

NoLast ==
  [op |-> None, ok |-> TRUE, cal |-> None, file |-> None, eventId |-> None,
   event |-> NoEvent, newId |-> None, newLoc |-> NoLoc, io |-> 0,
   notes |-> <<>>, removed |-> <<>>, added |-> <<>>, visited |-> <<>>,
   storeBefore |-> <<>>, repeat |-> FALSE, quiet |-> TRUE,
   err |-> "none", calendarsBefore |-> <<>>, calls |-> <<>>, overlapped |-> FALSE]

RemoveAt(q, i) == [j \in 1..(Len(q) - 1) |-> IF j < i THEN q[j] ELSE q[j + 1]]

Idle == procs = <<>>

\* the configurations the settings can hold at start-up
\* no function applied yet
NoCall == [op |-> None]

Configs == {q \in SeqsUpTo(Descs, MaxSources) : \A i, j \in 1..Len(q) : i # j => q[i] # q[j]}

\* a cache as constructed: no calendar, no record, no subscriber, no call
Constructed ==
  /\ calendars = <<>>
  /\ store = <<>>
  /\ pkCounter = 0
  /\ view = [c \in {"a", "b"} |-> <<>>]
  /\ procs = <<>>
  /\ last = NoLast
  /\ callbacks = <<>>
  /\ es = EmptyEs

Init ==
  /\ sources \in Configs
  /\ Constructed
  /\ input = NoCall
  /\ output = NoCall

(* ------------------------------------------------ the environment *)
\* onboarding ("No calendar available"): calendarSources.push(source)
AddSource(d) ==
  /\ sources = <<>>
  /\ sources' = Append(sources, d)
  /\ last' = NoLast
  /\ UNCHANGED <<calendars, store, pkCounter, view, procs, aux>>

\* a file of an editable calendar is edited out of band
ExternalEdit(c, v) ==
  /\ v # view[c]
  /\ view' = [view EXCEPT ![c] = v]
  /\ procs' = [i \in 1..Len(procs) |-> [procs[i] EXCEPT !.repeat = FALSE, !.quiet = FALSE]]
  /\ last' = NoLast
  /\ UNCHANGED <<sources, calendars, store, pkCounter, aux>>

(* ------------------------------------------------ initialize, clear *)
\* settings.calendarSources.flatMap(s => calendarInitializers[s.type](s) || [])
BuildCalendars(srcs) ==
  SelectSeq([i \in 1..Len(srcs) |-> InitializerResult(srcs[i])], LAMBDA c : c # None)

\* calendarInitializers[s.type] is undefined for some source: the call throws
InitializeThrows(srcs) == \E i \in 1..Len(srcs) : TypeOf(srcs[i]) \notin InitializerTypes

\* initialize without this.store.clear()
Initialize_KeepsStore ==
  /\ calendars' = IF InitializeThrows(sources) THEN <<>> ELSE BuildCalendars(sources)
  /\ last' = [NoLast EXCEPT !.op = "initialize", !.ok = ~InitializeThrows(sources),
                            !.storeBefore = store,
                            !.calendarsBefore = calendars]
  /\ UNCHANGED <<sources, store, pkCounter, view, procs, aux>>

\* initialize that also sets this.pkCounter = 0
Initialize_ResetsCounter ==
  /\ calendars' = IF InitializeThrows(sources) THEN <<>> ELSE BuildCalendars(sources)
  /\ store' = <<>>
  /\ pkCounter' = 0
  /\ last' = [NoLast EXCEPT !.op = "initialize", !.ok = ~InitializeThrows(sources),
                            !.storeBefore = store,
                            !.calendarsBefore = calendars]
  /\ UNCHANGED <<sources, view, procs, aux>>

Initialize ==
  /\ calendars' = IF InitializeThrows(sources) THEN <<>> ELSE BuildCalendars(sources)
  /\ store' = <<>>
  /\ last' = [NoLast EXCEPT !.op = "initialize", !.ok = ~InitializeThrows(sources),
                            !.storeBefore = store,
                            !.calendarsBefore = calendars]
  /\ UNCHANGED <<sources, pkCounter, view, procs, aux>>

Clear ==
  /\ store' = <<>>
  /\ last' = [NoLast EXCEPT !.op = "clear", !.storeBefore = store,
                            !.calendarsBefore = calendars]
  /\ UNCHANGED <<sources, calendars, pkCounter, view, procs, aux>>

(* ------------------------------------------------ populate *)
\* for (const calendar of this.calendars.values()) { await calendar.getEvents() ...
PopulateBegin ==
  /\ IF calendars = <<>>
     THEN /\ last' = [NoLast EXCEPT !.op = "populate", !.storeBefore = store]
          /\ UNCHANGED procs
     ELSE /\ procs' = Append(procs, [NoFrame EXCEPT !.op = "populate",
                                       !.cal = Head(calendars),
                                       !.cals = Tail(calendars),
                                       !.storeBefore = store])
          /\ last' = NoLast
  /\ UNCHANGED <<sources, calendars, store, pkCounter, view, aux>>

\* getEvents() rejects: the exception leaves populate
PopulateFail(i) ==
  /\ procs[i].op = "populate"
  /\ procs' = RemoveAt(procs, i)
  /\ last' = [NoLast EXCEPT !.op = "populate", !.ok = FALSE, !.cal = procs[i].cal,
                            !.visited = procs[i].visited,
                            !.storeBefore = procs[i].storeBefore, !.err = "io"]
  /\ UNCHANGED <<sources, calendars, store, pkCounter, view, aux>>

\* getEvents() resolves: every result is added, then the next calendar is awaited
PopulateResults(i, results) ==
  LET fr == procs[i]
      entries == WithIds(results, pkCounter)
      seen == Append(fr.visited, fr.cal)
  IN  /\ fr.op = "populate"
      /\ results \in GetEventsResults(fr.cal)
      /\ pkCounter + Lacking(results) <= MaxPk
      /\ store' = StoreAddAll(store, fr.cal, entries)
      /\ pkCounter' = pkCounter + Lacking(results)
      /\ IF fr.cals = <<>>
         THEN /\ procs' = RemoveAt(procs, i)
              /\ last' = [NoLast EXCEPT !.op = "populate", !.visited = seen,
                                        !.added = fr.eventsToAdd \o entries,
                                        !.storeBefore = fr.storeBefore]
         ELSE /\ procs' = [procs EXCEPT ![i].cal = Head(fr.cals),
                                        ![i].cals = Tail(fr.cals),
                                        ![i].eventsToAdd = fr.eventsToAdd \o entries,
                                        ![i].visited = seen]
              /\ last' = NoLast
      /\ UNCHANGED <<sources, calendars, view, aux>>

(* ------------------------------------------------ addEvent *)
\* addEvent without the instanceof EditableCalendar check
AddEventError_NoEditableCheck(c) ==
  CASE ~Registered(c) -> "unregistered"
    [] OTHER -> "none"

\* the checks before createEvent: which one throws, if any
AddEventError(c) ==
  CASE ~Registered(c) -> "unregistered"
    [] ~Editable(c) -> "notEditable"
    [] OTHER -> "none"

AddEventBegin(c, e) ==
  /\ IF AddEventError(c) # "none"
     THEN /\ last' = [NoLast EXCEPT !.op = "addEvent", !.ok = FALSE, !.cal = c,
                                   !.event = e, !.storeBefore = store,
                                   !.err = AddEventError(c)]
          /\ UNCHANGED procs
     ELSE /\ procs' = Append(procs, [NoFrame EXCEPT !.op = "addEvent", !.cal = c,
                                       !.event = e, !.storeBefore = store])
          /\ last' = NoLast
  /\ UNCHANGED <<sources, calendars, store, pkCounter, view, aux>>

\* createEvent rejects
AddEventFail(i) ==
  /\ procs[i].op = "addEvent"
  /\ procs' = RemoveAt(procs, i)
  /\ last' = [NoLast EXCEPT !.op = "addEvent", !.ok = FALSE, !.cal = procs[i].cal,
                            !.event = procs[i].event, !.io = 1,
                            !.storeBefore = procs[i].storeBefore, !.err = "io"]
  /\ UNCHANGED <<sources, calendars, store, pkCounter, view, aux>>

\* where createEvent can have written the event: appended to the tracked file,
\* or a file of its own
CreateLocs(c) ==
  {[path |-> "h", lineNumber |-> 1]}
    \cup (IF Editable(c) /\ Len(view[c]) < MaxView
          THEN {[path |-> "f", lineNumber |-> Len(view[c]) + 1]} ELSE {})

\* createEvent resolves with the location; the record is inserted
AddEventDone(i, location) ==
  LET fr == procs[i]
      mint == Falsy(fr.event.id)
      id == IF mint THEN generateId(pkCounter) ELSE fr.event.id
  IN  /\ fr.op = "addEvent"
      /\ location \in CreateLocs(fr.cal)
      /\ mint => pkCounter < MaxPk
      /\ view' = IF location.path = "f"
                 THEN [view EXCEPT ![fr.cal] = Append(@, fr.event)] ELSE view
      /\ store' = StoreAdd(store, [id |-> id, calendarId |-> fr.cal,
                                   location |-> location, event |-> fr.event])
      /\ pkCounter' = IF mint THEN pkCounter + 1 ELSE pkCounter
      /\ procs' = RemoveAt(procs, i)
      /\ last' = [NoLast EXCEPT !.op = "addEvent", !.cal = fr.cal, !.event = fr.event,
                                !.newId = id, !.newLoc = location, !.io = 1,
                                !.storeBefore = fr.storeBefore,
                                !.calls = AddEventCalls(callbacks, id, fr.event)]
      /\ UNCHANGED <<sources, calendars, aux>>

(* ------------------------------------------------ modifyEvent *)
\* modifyEvent without the check that the record has a location
ModifyEventError_NoLocationCheck(id) ==
  CASE ~StoreHas(store, id) -> "unknownEvent"
    [] ~Registered(StoreGet(store, id).calendarId) -> "unregistered"
    [] ~Editable(StoreGet(store, id).calendarId) -> "notEditable"
    [] OTHER -> "none"

\* the checks before updateEvent: which one throws, if any
ModifyEventError(id) ==
  CASE ~StoreHas(store, id) -> "unknownEvent"
    [] ~Registered(StoreGet(store, id).calendarId) -> "unregistered"
    [] ~Editable(StoreGet(store, id).calendarId) -> "notEditable"
    [] StoreGet(store, id).location = NoLoc -> "noLocation"
    [] OTHER -> "none"

\* the event ids a caller may pass: those stored, and one that is not
EventIds == StoreIds(store) \cup {"9"}

ModifyEventBegin(id, e) ==
  /\ IF ModifyEventError(id) # "none"
     THEN /\ last' = [NoLast EXCEPT !.op = "modifyEvent", !.ok = FALSE, !.eventId = id,
                                   !.event = e, !.storeBefore = store,
                                   !.err = ModifyEventError(id)]
          /\ UNCHANGED procs
     ELSE /\ procs' = Append(procs, [NoFrame EXCEPT !.op = "modifyEvent",
                                       !.cal = StoreGet(store, id).calendarId,
                                       !.loc = StoreGet(store, id).location,
                                       !.eventId = id, !.event = e,
                                       !.storeBefore = store])
          /\ last' = NoLast
  /\ UNCHANGED <<sources, calendars, store, pkCounter, view, aux>>

\* updateEvent rejects
ModifyEventFail(i) ==
  /\ procs[i].op = "modifyEvent"
  /\ procs' = RemoveAt(procs, i)
  /\ last' = [NoLast EXCEPT !.op = "modifyEvent", !.ok = FALSE, !.cal = procs[i].cal,
                            !.eventId = procs[i].eventId, !.event = procs[i].event,
                            !.io = 1, !.storeBefore = procs[i].storeBefore,
                            !.err = "io"]
  /\ UNCHANGED <<sources, calendars, store, pkCounter, view, aux>>

\* where updateEvent can leave the event: in place, or moved to another file
UpdateLocs(loc) == {loc, [path |-> "h", lineNumber |-> 2]}

\* the calendar's file after updateEvent(loc, e) returned newLoc
ViewAfterUpdate(c, loc, newLoc, e) ==
  IF loc.path = "f" /\ loc.lineNumber \in 1..Len(view[c])
  THEN IF newLoc = loc THEN [view EXCEPT ![c][loc.lineNumber] = e]
       ELSE [view EXCEPT ![c] = RemoveAt(@, loc.lineNumber)]
  ELSE view

\* the two store calls of modifyEvent in the other order: add, then delete
ReplaceRecord_AddThenDelete(st, eventId, rec) == StoreDelete(StoreAdd(st, rec), eventId)

\* this.store.delete(eventId); this.store.add({calendar, location, id, event})
ReplaceRecord(st, eventId, rec) == StoreAdd(StoreDelete(st, eventId), rec)

\* updateEvent resolves with the new location
ModifyEventDone(i, newLocation) ==
  LET fr == procs[i]
      mint == Falsy(fr.event.id)
      id == IF mint THEN generateId(pkCounter) ELSE fr.event.id
  IN  /\ fr.op = "modifyEvent"
      /\ newLocation \in UpdateLocs(fr.loc)
      /\ mint => pkCounter < MaxPk
      /\ view' = ViewAfterUpdate(fr.cal, fr.loc, newLocation, fr.event)
      /\ store' = ReplaceRecord(store, fr.eventId,
                                [id |-> id, calendarId |-> fr.cal,
                                 location |-> newLocation, event |-> fr.event])
      /\ pkCounter' = IF mint THEN pkCounter + 1 ELSE pkCounter
      /\ procs' = RemoveAt(procs, i)
      /\ last' = [NoLast EXCEPT !.op = "modifyEvent", !.cal = fr.cal,
                                !.eventId = fr.eventId, !.event = fr.event,
                                !.newId = id, !.newLoc = newLocation, !.io = 1,
                                !.storeBefore = fr.storeBefore]
      /\ UNCHANGED <<sources, calendars, aux>>

(* ------------------------------------------------ fileUpdated *)
\* [...this.calendars.values()].flatMap(c =>
\*     c instanceof EditableCalendar && c.containsPath(file.path) ? c : [])
ClaimingCalendars(f) == SelectSeq(calendars, LAMBDA c : Editable(c) /\ ContainsPath(c, f))

EventsOf(recs) == [i \in 1..Len(recs) |-> recs[i].event]

IdsOf(recs) == [i \in 1..Len(recs) |-> recs[i].id]

\* a fileUpdated call for f is suspended at its await
Overlaps(ps, f) == \E j \in 1..Len(ps) : ps[j].op = "fileUpdated" /\ ps[j].file = f

\* the suspended fileUpdated calls for f, noted as overlapped by a new call
MarkOverlapped(ps, f) ==
  [j \in 1..Len(ps) |->
     IF ps[j].op = "fileUpdated" /\ ps[j].file = f
     THEN [ps[j] EXCEPT !.overlapped = TRUE] ELSE ps[j]]

FileUpdatedBegin(f) ==
  LET cs == ClaimingCalendars(f)
      again == last.op = "fileUpdated" /\ last.file = f /\ last.ok /\ last.quiet
  IN  /\ IF cs = <<>>
         THEN /\ last' = [NoLast EXCEPT !.op = "fileUpdated", !.file = f,
                                       !.storeBefore = store, !.repeat = again]
              /\ UNCHANGED procs
         ELSE /\ procs' = Append(MarkOverlapped(procs, f),
                    [NoFrame EXCEPT !.op = "fileUpdated", !.file = f,
                                    !.cal = Head(cs), !.cals = Tail(cs),
                                    !.oldEvents = GetEventsInFileAndCalendar(store, f, Head(cs)),
                                    !.storeBefore = store, !.repeat = again,
                                    !.overlapped = Overlaps(procs, f)])
              /\ last' = NoLast
      /\ UNCHANGED <<sources, calendars, store, pkCounter, view, aux>>

\* what a completed fileUpdated leaves in `last`
FileUpdatedLast(fr, ok, seen, removed, added, notes) ==
  [NoLast EXCEPT !.op = "fileUpdated", !.ok = ok, !.file = fr.file, !.cal = fr.cal,
                 !.visited = seen, !.removed = removed, !.added = added,
                 !.notes = notes, !.storeBefore = fr.storeBefore,
                 !.repeat = fr.repeat, !.quiet = fr.quiet,
                 !.err = IF ok THEN "none" ELSE "io",
                 !.overlapped = fr.overlapped,
                 !.calls = IF notes = <<>> THEN <<>>
                           ELSE InvokeCallbacks(callbacks, Head(notes))]

\* getEventsInFile rejects: the exception leaves fileUpdated
FileUpdatedFail(i) ==
  LET fr == procs[i]
  IN  /\ fr.op = "fileUpdated"
      /\ procs' = RemoveAt(procs, i)
      /\ last' = FileUpdatedLast(fr, FALSE, fr.visited, fr.idsToRemove,
                                 fr.eventsToAdd, <<>>)
      /\ UNCHANGED <<sources, calendars, store, pkCounter, view, aux>>

\* the turn of the loop deleting the old records only, the new ones not yet added
\* when the call next suspends
Reconcile_DeletesOnly(st, c, oldIds, entries) == StoreDeleteAll(st, oldIds)

\* oldIds.forEach(id => this.store.delete(id));
\* newEventsWithIds.forEach(e => this.store.add({calendar, ...e}))
Reconcile(st, c, oldIds, entries) == StoreAddAll(StoreDeleteAll(st, oldIds), c, entries)

\* getEventsInFile resolves: one turn of the loop over the claiming calendars,
\* up to the next await or the end of the call
FileUpdatedResume(i) ==
  LET fr == procs[i]
      newEvents == GetEventsInFile(fr.cal, fr.file)
      eventsHaveChanged == eventsAreDifferent(EventsOf(fr.oldEvents), EventsOf(newEvents))
      newEventsWithIds == WithIds(newEvents, pkCounter)
      oldIds == IdsOf(fr.oldEvents)
      newStore == Reconcile(store, fr.cal, oldIds, newEventsWithIds)
      idsToRemove == fr.idsToRemove \o oldIds
      eventsToAdd == fr.eventsToAdd \o newEventsWithIds
      seen == Append(fr.visited, fr.cal)
  IN  /\ fr.op = "fileUpdated"
      /\ IF ~eventsHaveChanged
         THEN \* return;
              /\ procs' = RemoveAt(procs, i)
              /\ last' = FileUpdatedLast(fr, TRUE, seen, fr.idsToRemove,
                                         fr.eventsToAdd, <<>>)
              /\ UNCHANGED <<store, pkCounter>>
         ELSE /\ pkCounter + Lacking(newEvents) <= MaxPk
              /\ store' = newStore
              /\ pkCounter' = pkCounter + Lacking(newEvents)
              /\ IF fr.cals = <<>>
                 THEN \* this.updateViews(idsToRemove, eventsToAdd)
                      /\ procs' = RemoveAt(procs, i)
                      /\ last' = FileUpdatedLast(fr, TRUE, seen, idsToRemove, eventsToAdd,
                                                 <<updateViews(idsToRemove, eventsToAdd)>>)
                 ELSE /\ procs' = [procs EXCEPT
                            ![i].cal = Head(fr.cals), ![i].cals = Tail(fr.cals),
                            ![i].oldEvents =
                               GetEventsInFileAndCalendar(newStore, fr.file, Head(fr.cals)),
                            ![i].idsToRemove = idsToRemove,
                            ![i].eventsToAdd = eventsToAdd,
                            ![i].visited = seen]
                      /\ last' = NoLast
      /\ UNCHANGED <<sources, calendars, view, aux>>

(* ------------------------------------------------ queries *)
\* getAllEvents(): one source per calendar that owns records and is registered
getAllEvents ==
  {[calendarId |-> c, editable |-> Editable(c),
    events |-> LET recs == SelectSeq(store, LAMBDA r : r.calendarId = c)
               IN  [i \in 1..Len(recs) |-> toEventInput(recs[i].id, recs[i].event)]]
     : c \in {k \in EventsByCalendarKeys(store) : Registered(k)}}

\* getEventById(s)
getEventById(s) == GetEventById(store, s)

(* ------------------------------------------------ specification *)
\* calls are made one at a time: the next starts when the last has completed
Next ==
  \/ \E d \in Descs : AddSource(d)
  \/ Idle /\ \E c \in {"a", "b"}, v \in Views : ExternalEdit(c, v)
  \/ Idle /\ Initialize
  \/ Idle /\ Clear
  \/ Idle /\ PopulateBegin
  \/ \E i \in 1..Len(procs) : PopulateFail(i)
  \/ \E i \in 1..Len(procs) : \E r \in GetEventsResults(procs[i].cal) : PopulateResults(i, r)
  \/ Idle /\ \E c \in Descs, e \in Events : AddEventBegin(c, e)
  \/ \E i \in 1..Len(procs) : AddEventFail(i)
  \/ \E i \in 1..Len(procs) :
        procs[i].op = "addEvent" /\ \E l \in CreateLocs(procs[i].cal) : AddEventDone(i, l)
  \/ Idle /\ \E id \in EventIds, e \in Events : ModifyEventBegin(id, e)
  \/ \E i \in 1..Len(procs) : ModifyEventFail(i)
  \/ \E i \in 1..Len(procs) : \E l \in UpdateLocs(procs[i].loc) : ModifyEventDone(i, l)
  \/ Idle /\ \E f \in Files : FileUpdatedBegin(f)
  \/ \E i \in 1..Len(procs) : FileUpdatedFail(i)
  \/ \E i \in 1..Len(procs) : FileUpdatedResume(i)

Spec == Init /\ [][Next]_vars

(* ------------------------------------------------ subscribers *)
Callbacks == {"x", "y"}

\* a subscriber is appended to updateViewCallbacks (spec 4.5: an append-only
\* list of callbacks)
Subscribe(cb) ==
  /\ Len(callbacks) < MaxCallbacks
  /\ cb \notin Range(callbacks)
  /\ callbacks' = Append(callbacks, cb)
  /\ last' = NoLast
  /\ UNCHANGED <<sources, calendars, store, pkCounter, view, procs, es, input, output>>

\* the cache of no calendar yet or of two editable ones, with subscribers coming
InitSubs == Init /\ sources \in {<<>>, <<"a", "b">>}

NextSubs ==
  \/ Next
  \/ \E cb \in Callbacks : Subscribe(cb)

SpecSubs == InitSubs /\ [][NextSubs]_vars

(* ------------------------------------------------ overlapping calls *)
\* fileUpdated is called from a file-change event: a call can start while an
\* earlier one is suspended at its await

\* one editable calendar that claims the file, initialized
InitConc == Init /\ sources = <<"a">>

NextConc ==
  \/ \E v \in Views : ExternalEdit("a", v)
  \/ Idle /\ Initialize
  \/ Len(procs) < MaxInflight /\ \E f \in Files : FileUpdatedBegin(f)
  \/ \E i \in 1..Len(procs) : FileUpdatedFail(i)
  \/ \E i \in 1..Len(procs) : FileUpdatedResume(i)

SpecConc == InitConc /\ [][NextConc]_vars

(* ------------------------------------------------ the store alone *)
EsIds == {"0", "1"}

EsLocations == {NoLoc, [path |-> "f", lineNumber |-> 1], [path |-> "g", lineNumber |-> 1]}

\* the records the cache hands to store.add
EsRecords == [id : EsIds, calendarId : {"a", "b"}, location : EsLocations, event : Events]

EsHas(e, id) == \E i \in 1..Len(e.store) : e.store[i].id = id

\* this.store.add(rec)
StoreAddCall(rec) ==
  /\ es' = EsAdd(es, rec)
  /\ output' = [op |-> "add", id |-> rec.id, existed |-> EsHas(es, rec.id)]
  /\ UNCHANGED <<sources, calendars, store, pkCounter, view, procs, last, callbacks, input>>

\* this.store.delete(id)
StoreDeleteCall(id) ==
  /\ es' = EsDelete(es, id)
  /\ output' = [op |-> "delete", id |-> id, existed |-> EsHas(es, id)]
  /\ UNCHANGED <<sources, calendars, store, pkCounter, view, procs, last, callbacks, input>>

\* this.store.clear()
StoreClearCall ==
  /\ es' = EmptyEs
  /\ output' = [op |-> "clear", id |-> None, existed |-> es.store # <<>>]
  /\ UNCHANGED <<sources, calendars, store, pkCounter, view, procs, last, callbacks, input>>

InitStore == Init /\ sources = <<>>

NextStore ==
  \/ \E rec \in EsRecords : StoreAddCall(rec)
  \/ \E id \in EsIds \cup {"9"} : StoreDeleteCall(id)
  \/ StoreClearCall

SpecStore == InitStore /\ [][NextStore]_vars

(* ------------------------------------------------ eventsAreDifferent alone *)
\* events that can agree in title and differ in another field
DiffEvents == [title : Range(Titles), id : {NoId, "0"}]

InitDiff ==
  /\ sources = <<>>
  /\ Constructed
  /\ input \in [op : {"eventsAreDifferent"},
                 a : SeqsUpTo(DiffEvents, MaxLen), b : SeqsUpTo(DiffEvents, MaxLen)]
  /\ output = NoCall

\* eventsAreDifferent(a, b)
CallEventsAreDifferent ==
  /\ input.op = "eventsAreDifferent"
  /\ output = NoCall
  /\ output' = [op |-> "eventsAreDifferent",
                result |-> eventsAreDifferent(input.a, input.b)]
  /\ UNCHANGED <<sources, calendars, store, pkCounter, view, procs, last,
                 callbacks, es, input>>

NextDiff == CallEventsAreDifferent

SpecDiff == InitDiff /\ [][NextDiff]_vars

(* ------------------------------------------------ getEventsFromICS alone *)
\* a VEVENT with valid dates: its UID, whether it has a RECURRENCE-ID, whether
\* it is recurring (has an RRULE), and its start date
VEvents == [uid : {"u", "v"}, recurrenceId : BOOLEAN, recurring : BOOLEAN, date : {"d1", "d2"}]

\* icsToOFC(input); `vevent` records which VEVENT of the file the event is from
icsToOFC(v, i) ==
  IF v.recurring
  THEN [type |-> "rrule", uid |-> v.uid, date |-> v.date, skipDates |-> <<>>, vevent |-> i]
  ELSE [type |-> "single", uid |-> v.uid, date |-> v.date, skipDates |-> <<>>, vevent |-> i]

\* [uid, icsToOFC(e)] for the VEVENTs from position i on that have (have not)
\* a RECURRENCE-ID
RECURSIVE Entries(_, _, _)
Entries(vs, i, withRecurrenceId) ==
  IF i > Len(vs) THEN <<>>
  ELSE (IF vs[i].recurrenceId = withRecurrenceId
        THEN <<[uid |-> vs[i].uid, event |-> icsToOFC(vs[i], i)]>> ELSE <<>>)
       \o Entries(vs, i + 1, withRecurrenceId)

\* Object.fromEntries: a later entry of the same key takes the place of the
\* earlier one's value
RECURSIVE FromEntries(_)
FromEntries(entries) ==
  IF entries = <<>> THEN <<>>
  ELSE LET e == entries[Len(entries)]
           rest == FromEntries(SubSeq(entries, 1, Len(entries) - 1))
       IN  IF \E k \in 1..Len(rest) : rest[k].uid = e.uid
           THEN [k \in 1..Len(rest) |-> IF rest[k].uid = e.uid THEN e ELSE rest[k]]
           ELSE Append(rest, e)

\* the loop over recurrenceExceptions: skip when no base, or when the base is
\* not an rrule or the exception not a single; else push the date on skipDates
RECURSIVE MergeExceptions(_, _)
MergeExceptions(baseEvents, exceptions) ==
  IF exceptions = <<>> THEN baseEvents
  ELSE LET x == Head(exceptions)
           merged ==
             [k \in 1..Len(baseEvents) |->
                IF /\ baseEvents[k].uid = x.uid
                   /\ baseEvents[k].event.type = "rrule"
                   /\ x.event.type = "single"
                THEN [baseEvents[k] EXCEPT !.event.skipDates = Append(@, x.event.date)]
                ELSE baseEvents[k]]
       IN  MergeExceptions(merged, Tail(exceptions))

\* validateEvent: the event, or null when it is not a well-formed event
validateEvent(e) == e

\* getEventsFromICS, from the VEVENTs that passed the date filter
getEventsFromICS(vs) ==
  LET baseEvents == FromEntries(Entries(vs, 1, FALSE))
      recurrenceExceptions == Entries(vs, 1, TRUE)
      merged == MergeExceptions(baseEvents, recurrenceExceptions)
      all == merged \o recurrenceExceptions
  IN  [k \in 1..Len(all) |-> validateEvent(all[k].event)]

InitIcs ==
  /\ sources = <<>>
  /\ Constructed
  /\ input \in [op : {"getEventsFromICS"}, vevents : SeqsUpTo(VEvents, MaxVEvents)]
  /\ output = NoCall

CallGetEventsFromICS ==
  /\ input.op = "getEventsFromICS"
  /\ output = NoCall
  /\ output' = [op |-> "getEventsFromICS", events |-> getEventsFromICS(input.vevents)]
  /\ UNCHANGED <<sources, calendars, store, pkCounter, view, procs, last,
                 callbacks, es, input>>

NextIcs == CallGetEventsFromICS

SpecIcs == InitIcs /\ [][NextIcs]_vars

(* ------------------------------------------------ tasks (CalendarEvent) *)
\* event.type: "single", absent, or a recurring kind
EventTypes == {"single", "undefined", "recurring", "rrule"}

\* event.completed: absent, null, false, or the time of completion
Completions == {"undefined", "null", "false", "2022-01-01T10:00"}

EventData == [type : EventTypes, title : Range(Titles), completed : Completions]

\* get isTask()
isTask(data) ==
  /\ data.type = "single"
  /\ data.completed # "undefined"
  /\ data.completed # "null"

\* setIsTask without the return for events that are not single
setIsTask_AnyType(data, asTask) ==
  IF asTask /\ (data.completed = "undefined" \/ data.completed = "null")
  THEN <<[data EXCEPT !.completed = "false"]>>
  ELSE IF ~asTask THEN <<[data EXCEPT !.completed = "null"]>>
  ELSE <<>>

\* setIsTask(isTask): the arguments of the calls of setData it makes
setIsTask(data, asTask) ==
  IF data.type # "single" THEN <<>>
  ELSE IF asTask /\ (data.completed = "undefined" \/ data.completed = "null")
  THEN <<[data EXCEPT !.completed = "false"]>>
  ELSE IF ~asTask THEN <<[data EXCEPT !.completed = "null"]>>
  ELSE <<>>

InitTask ==
  /\ sources = <<>>
  /\ Constructed
  /\ input \in [op : {"isTask", "setIsTask"}, data : EventData, isTask : BOOLEAN]
  /\ input.op = "isTask" => input.isTask
  /\ output = NoCall

CallIsTask ==
  /\ input.op = "isTask"
  /\ output = NoCall
  /\ output' = [op |-> "isTask", result |-> isTask(input.data)]
  /\ UNCHANGED <<sources, calendars, store, pkCounter, view, procs, last,
                 callbacks, es, input>>

\* setData(d) leaves d as the event's data
CallSetIsTask ==
  LET calls == setIsTask(input.data, input.isTask)
  IN  /\ input.op = "setIsTask"
      /\ output = NoCall
      /\ output' = [op |-> "setIsTask", setData |-> calls,
                    data |-> IF calls = <<>> THEN input.data ELSE calls[Len(calls)]]
      /\ UNCHANGED <<sources, calendars, store, pkCounter, view, procs, last,
                     callbacks, es, input>>

NextTask ==
  \/ CallIsTask
  \/ CallSetIsTask

SpecTask == InitTask /\ [][NextTask]_vars

(* ================================================================ claims *)
\* the collections of events A and B hold the same events, each as often
SameCollection(A, B) ==
  \A e \in Range(A) \cup Range(B) :
     Cardinality({i \in 1..Len(A) : A[i] = e}) = Cardinality({i \in 1..Len(B) : B[i] = e})

\* the events the store held for (c, f) when the last call started
EventsBefore(c, f) == EventsOf(GetEventsInFileAndCalendar(last.storeBefore, f, c))

\* the events the store holds for (c, f)
EventsNow(c, f) == EventsOf(GetEventsInFileAndCalendar(store, f, c))

\* calendar c's view of f differs from what the store held when the call started
ChangedFor(c, f) == ~SameCollection(EventsBefore(c, f), EventsOf(GetEventsInFile(c, f)))

FileUpdatedReturned == last.op = "fileUpdated" /\ last.ok

\* C1: a fileUpdated call that returns with at least one claiming calendar's
\* events changed has emitted exactly one notification, whose batch holds every
\* id the call removed and every record it inserted.
C1_OneNotificationWithFullBatch ==
  (FileUpdatedReturned /\ \E c \in Range(ClaimingCalendars(last.file)) : ChangedFor(c, last.file))
    => last.notes = <<updateViews(last.removed, last.added)>>

\* C2: after fileUpdated returns normally, the store's records of every claiming
\* calendar for the file are, as a collection of events, what that calendar's
\* getEventsInFile returns, wherever an unchanged calendar stands in the order.
C2_StoreMatchesEveryClaimingCalendar ==
  FileUpdatedReturned =>
    \A c \in Range(ClaimingCalendars(last.file)) :
       SameCollection(EventsNow(c, last.file), EventsOf(GetEventsInFile(c, last.file)))

\* C3: a fileUpdated call that directly follows a fileUpdated call for the same
\* file, with no view changed in between, notifies nobody and leaves the store
\* as it was.
C3_SecondCallIsSilent ==
  (FileUpdatedReturned /\ last.repeat) => (last.notes = <<>> /\ store = last.storeBefore)

ModifyEventReturned == last.op = "modifyEvent" /\ last.ok

\* newEvent.id if present, otherwise the id minted by the call that just completed
ExpectedId(e) == IF Falsy(e.id) THEN ToString(pkCounter - 1) ELSE e.id

\* the record the last addEvent / modifyEvent call was to leave in the store
ExpectedRecord ==
  [id |-> ExpectedId(last.event), calendarId |-> last.cal,
   location |-> last.newLoc, event |-> last.event]

\* C4 as stated: after a successful modifyEvent the old id is absent from the
\* store and the new id maps to newEvent at the location updateEvent returned.
C4_OldIdAbsentNewIdMapped ==
  ModifyEventReturned =>
    /\ ~StoreHas(store, last.eventId)
    /\ StoreHas(store, ExpectedId(last.event))
    /\ StoreGet(store, ExpectedId(last.event)) = ExpectedRecord

\* C4 amended: after a successful modifyEvent the new id (newEvent.id if present,
\* otherwise the freshly minted one) maps to newEvent at the location updateEvent
\* returned, and the old id is absent from the store unless it is the new id.
C4_NewIdMappedOldIdGoneUnlessReused ==
  ModifyEventReturned =>
    /\ last.newId = ExpectedId(last.event)
    /\ StoreHas(store, last.newId)
    /\ StoreGet(store, last.newId) = ExpectedRecord
    /\ (last.eventId # last.newId => ~StoreHas(store, last.eventId))

\* C4 witness: a successful modifyEvent whose new event carries the id it replaces
C4_Witness ==
  /\ ModifyEventReturned
  /\ last.newId = last.eventId
  /\ StoreHas(last.storeBefore, last.eventId)
  /\ StoreGet(last.storeBefore, last.eventId).event # last.event

\* the record modifyEvent was called on, as the store held it at the call
TargetBefore == StoreGet(last.storeBefore, last.eventId)

\* one of the four conditions under which modifyEvent must not reach updateEvent
ModifyPreconditionFails ==
  \/ ~StoreHas(last.storeBefore, last.eventId)
  \/ ~Registered(TargetBefore.calendarId)
  \/ ~Editable(TargetBefore.calendarId)
  \/ TargetBefore.location = NoLoc

C6_AddEventAllOrNothing ==
  /\ \A i \in 1..Len(procs) : procs[i].op = "addEvent" => store = procs[i].storeBefore
  /\ last.op = "addEvent" =>
       /\ ((~Registered(last.cal) \/ ~Editable(last.cal)) => (~last.ok /\ last.io = 0))
       /\ (last.err = "io" => (~last.ok /\ last.io = 1))
       /\ (~last.ok => store = last.storeBefore)
       /\ (last.ok => /\ last.io = 1
                      /\ last.newId = ExpectedId(last.event)
                      /\ store = StoreAdd(last.storeBefore, ExpectedRecord))

\* C6 witness: addEvent inserted a record under a minted id into a store that
\* already held records
C6_Witness ==
  /\ last.op = "addEvent" /\ last.ok
  /\ Falsy(last.event.id)
  /\ last.storeBefore # <<>>
  /\ Len(store) = Len(last.storeBefore) + 1

\* C7: when getEvents of one registered calendar fails, populate still
\* enumerates every other registered calendar.
C7_PopulateIsolatesFailures ==
  (last.op = "populate" /\ last.err = "io") =>
    \A c \in Range(calendars) \ {last.cal} : c \in Range(last.visited)

\* C8: when getEventsInFile of one claiming calendar fails, fileUpdated does
\* not fail, still reconciles the other claiming calendars, and reports the
\* mutations it made to the subscribers.
C8_FileUpdatedIsolatesFailures ==
  (last.op = "fileUpdated" /\ last.err = "io") =>
    /\ last.ok
    /\ \A c \in Range(ClaimingCalendars(last.file)) \ {last.cal} : c \in Range(last.visited)
    /\ ((last.removed # <<>> \/ last.added # <<>>)
          => last.notes = <<updateViews(last.removed, last.added)>>)

\* the calendar set the configuration stands for: one calendar per source whose
\* type has an initializer that returns a calendar
ConfiguredCalendars(srcs) ==
  SelectSeq(srcs, LAMBDA d : TypeOf(d) \in InitializerTypes /\ InitializerResult(d) # None)

\* every query answers empty / null
QueriesEmpty == getAllEvents = {} /\ \A id \in {"0", "1", "2", "9"} : getEventById(id) = NoEvent

C10_InitializeSkipsUnsupported ==
  last.op = "initialize" => (last.ok /\ calendars = ConfiguredCalendars(sources))

(* ---- C11 *)
\* the payload of one notification, from what the call removed and added
PayloadOf(removed, added) ==
  [toRemove |-> removed,
   toAdd |-> [k \in 1..Len(added) |-> toEventInput(added[k].id, added[k].event)]]

C12_OnlyFileUpdatedNotifies ==
  last.op \in {"addEvent", "modifyEvent", "populate", "initialize", "clear"}
    => last.calls = <<>> /\ last.notes = <<>>

\* addEvent stored an event while a subscriber was registered
C12_Witness ==
  /\ last.op = "addEvent" /\ last.ok /\ last.newId # None
  /\ StoreHas(store, last.newId)
  /\ callbacks # <<>>

(* ---- C13 *)
\* C13 (as claimed): the id counter is reset exactly on initialize: after any
\* initialize call the next minted id is the counter's initial value, "0".
C13_InitializeResetsCounter ==
  last.op = "initialize" => generateId(pkCounter) = "0"

\* C13 (amended): no operation resets the id counter, initialize included: the
\* counter never decreases, and initialize leaves it as it found it, so the id
\* minted next after initialize continues from the ids minted before it.
C13_CounterNeverReset ==
  [][/\ pkCounter' >= pkCounter
     /\ last'.op \in {"initialize", "clear"} => pkCounter' = pkCounter]_vars

\* initialize returned after ids were minted
C13_Witness ==
  last.op = "initialize" /\ last.ok /\ pkCounter > 0

(* ---- C14 *)
\* the id-keyed map holds a record with this entry's id, calendar and event
InIdMap(x) ==
  \E i \in 1..Len(es.store) :
     /\ es.store[i].id = x.id
     /\ es.store[i].calendarId = x.calendarId
     /\ es.store[i].event = x.event

OncePerId(q) == \A i, j \in 1..Len(q) : q[i].id = q[j].id => i = j

\* C14: after any sequence of store add and delete calls, an add under an
\* existing id included, every entry reachable from the by-calendar index or
\* from the by-(calendar, file) index is in the id-keyed map with the same
\* contents, and no replaced or deleted record is reachable from any index.
C14_IndexConsistency ==
  /\ \A i \in 1..Len(es.byCalendar) : InIdMap(es.byCalendar[i])
  /\ \A i \in 1..Len(es.byPath) :
        /\ InIdMap(es.byPath[i])
        /\ \E k \in 1..Len(es.store) :
              /\ es.store[k].id = es.byPath[i].id
              /\ es.store[k].location # NoLoc
              /\ es.store[k].location.path = es.byPath[i].path
  /\ OncePerId(es.store) /\ OncePerId(es.byCalendar) /\ OncePerId(es.byPath)
  /\ output.op = "delete"
       => \A i \in 1..Len(es.byCalendar) : es.byCalendar[i].id # output.id

\* an add replaced a record while the store held another one
C14_Witness ==
  /\ output.op = "add" /\ output.existed
  /\ Len(es.store) = 2 /\ Len(es.byPath) >= 1

(* ---- C15 *)
Compared == output.op = "eventsAreDifferent"

\* e put into a title-ordered sequence, behind the events of its title
RECURSIVE InsertByTitle(_, _)
InsertByTitle(e, q) ==
  LET rank(t) == CHOOSE k \in 1..Len(Titles) : Titles[k] = t
  IN  IF q = <<>> THEN <<e>>
      ELSE IF rank(Head(q).title) <= rank(e.title)
           THEN <<Head(q)>> \o InsertByTitle(e, Tail(q))
           ELSE <<e>> \o q

\* q in the order of its titles, events of one title in the order given
RECURSIVE InTitleOrder(_)
InTitleOrder(q) ==
  IF q = <<>> THEN <<>>
  ELSE InsertByTitle(q[Len(q)], InTitleOrder(SubSeq(q, 1, Len(q) - 1)))

\* C15: eventsAreDifferent(A, A) is false for every sequence A, and
\* eventsAreDifferent(A, B) is true whenever A and B differ in length or, once
\* both are ordered by title, differ at some aligned position.
C15_ReflexiveAndDetectsDifference ==
  Compared =>
    LET o == InTitleOrder(input.a)
        n == InTitleOrder(input.b)
    IN  /\ input.a = input.b => ~output.result
        /\ Len(input.a) # Len(input.b) => output.result
        /\ (Len(o) = Len(n) /\ \E i \in 1..Len(o) : o[i] # n[i]) => output.result

\* two sequences of one length and the same titles, differing in another field
C15_Witness ==
  /\ Compared /\ output.result
  /\ Len(input.a) = 3 /\ Len(input.b) = 3
  /\ \A i \in 1..3 : InTitleOrder(input.a)[i].title = InTitleOrder(input.b)[i].title

(* ---- C18 *)
\* the events of title t, in the order q gives them
OfTitle(q, t) == SelectSeq(q, LAMBDA e : e.title = t)

\* A and B agree on the order in which they give the events of each title
SameOrderWithinTitles(A, B) == \A t \in Range(Titles) : OfTitle(A, t) = OfTitle(B, t)

\* C18 (as claimed): the diff is order-insensitive: for every sequence A and
\* every permutation B of A, eventsAreDifferent(A, B) is false, also when
\* several events of A share a title and differ in other fields.
C18_PermutationsAreNotDifferent ==
  (Compared /\ SameCollection(input.a, input.b)) => ~output.result

\* C18 (amended): the diff is order-insensitive between titles only: for a
\* permutation B of A, eventsAreDifferent(A, B) is false exactly when A and B
\* give the events of each title in the same order; a permutation that swaps
\* two events of one title that differ in another field is reported different.
C18_OrderInsensitiveBetweenTitles ==
  (Compared /\ SameCollection(input.a, input.b))
    => (output.result <=> ~SameOrderWithinTitles(input.a, input.b))

\* a reordering across titles of events, two of which share a title and differ
C18_Witness ==
  /\ Compared /\ ~output.result
  /\ input.a # input.b
  /\ SameCollection(input.a, input.b)
  /\ \E i, j \in 1..Len(input.a) :
        input.a[i].title = input.a[j].title /\ input.a[i] # input.a[j]

(* ---- C16 *)
\* the event returned for the VEVENT at position i, if any
ReturnedFor(i) == {e \in Range(output.events) : e.vevent = i}

\* the base the override at position i refers to: the last VEVENT of its UID
\* without a RECURRENCE-ID
BasesOf(i) ==
  {k \in 1..Len(input.vevents) :
     /\ ~input.vevents[k].recurrenceId
     /\ input.vevents[k].uid = input.vevents[i].uid
     /\ \A m \in (k + 1)..Len(input.vevents) :
           input.vevents[m].recurrenceId \/ input.vevents[m].uid # input.vevents[k].uid}

\* C16: an override (a VEVENT with a RECURRENCE-ID) contributes its single
\* event to the output only when its base exists and is an rrule event, and
\* then its date is among the base's skipDates; when the base is missing or is
\* not an rrule event, or the override is not a single event, the override is
\* not in the output.
C16_OverrideMergedOrDropped ==
  output.op = "getEventsFromICS" =>
    \A i \in 1..Len(input.vevents) :
       input.vevents[i].recurrenceId =>
         LET mergeable ==
               /\ ~input.vevents[i].recurring
               /\ \E k \in BasesOf(i) : input.vevents[k].recurring
         IN  /\ ReturnedFor(i) # {} <=> mergeable
             /\ mergeable =>
                   \E k \in BasesOf(i) : \E e \in ReturnedFor(k) :
                      \E d \in 1..Len(e.skipDates) : e.skipDates[d] = input.vevents[i].date

(* ---- C17 *)
Unset(completed) == completed \in {"undefined", "null"}

Suspended(op) == {i \in 1..Len(procs) : procs[i].op = op}

\* the store holds the delete batch and the add batch the frame has
\* accumulated, both in full: no removed id is left unless added again, and
\* every added entry is stored
BatchesInFull(fr) ==
  /\ \A k \in 1..Len(fr.idsToRemove) :
        StoreHas(store, fr.idsToRemove[k])
          => \E m \in 1..Len(fr.eventsToAdd) : fr.eventsToAdd[m].id = fr.idsToRemove[k]
  /\ \A m \in 1..Len(fr.eventsToAdd) :
        /\ StoreHas(store, fr.eventsToAdd[m].id)
        /\ \/ StoreGet(store, fr.eventsToAdd[m].id).event = fr.eventsToAdd[m].event
           \/ \E n \in (m + 1)..Len(fr.eventsToAdd) :
                 fr.eventsToAdd[n].id = fr.eventsToAdd[m].id

\* C19 (amended): a delete batch and its add batch are never separated by a
\* suspension: whenever fileUpdated is suspended the store holds both batches
\* of every calendar it has reconciled so far, in full, and whenever
\* modifyEvent is suspended the store holds none of its mutations.
C19_BatchesNeverSeparated ==
  /\ \A i \in Suspended("fileUpdated") : BatchesInFull(procs[i])
  /\ \A i \in Suspended("modifyEvent") : store = procs[i].storeBefore

\* C19 (as claimed): in addition, no suspension occurs while the store holds
\* mutations of the call for the file being reconciled: fileUpdated is never
\* suspended after it has removed or added a record.
C19_NoSuspensionWithMutations ==
  /\ C19_BatchesNeverSeparated
  /\ \A i \in Suspended("fileUpdated") :
        procs[i].idsToRemove = <<>> /\ procs[i].eventsToAdd = <<>>

\* fileUpdated awaits the second calendar, the first one's records replaced
C19_Witness ==
  \E i \in Suspended("fileUpdated") :
     /\ procs[i].idsToRemove # <<>>
     /\ procs[i].eventsToAdd # <<>>
     /\ procs[i].visited # <<>>
     /\ store # procs[i].storeBefore

(* ---- C20 *)
\* no entry stored under a minted id took the place of a record: its id was
\* not in the store when the call began, nor stored earlier by the same call
MintedIdsFresh(before, added) ==
  \A m \in 1..Len(added) :
     Falsy(added[m].event.id)
       => /\ ~StoreHas(before, added[m].id)
          /\ \A n \in 1..(m - 1) : added[n].id # added[m].id

\* C20: minting never overwrites: an id returned by generateId is never equal
\* to an id present in the store, whether minted earlier or supplied by a
\* source event, so a record inserted under a minted id replaces no record.
C20_MintingNeverOverwrites ==
  /\ (last.op = "addEvent" /\ last.ok /\ last.newId # None /\ Falsy(last.event.id))
        => ~StoreHas(last.storeBefore, last.newId)
  /\ (ModifyEventReturned /\ Falsy(last.event.id))
        => ~StoreHas(StoreDelete(last.storeBefore, last.eventId), last.newId)
  /\ last.op \in {"populate", "fileUpdated"}
        => MintedIdsFresh(last.storeBefore, last.added)

(* ---- C21 *)
\* two overlapping fileUpdated calls have both ended, the last one normally,
\* and the file was not edited while that one was under way
OverlappingCallsReturned ==
  /\ procs = <<>>
  /\ FileUpdatedReturned /\ last.overlapped /\ last.quiet

\* C21: when two fileUpdated calls for one file overlap and the file's events
\* lack ids, then once both have completed the store holds, for each claiming
\* calendar, each event of the calendar's view of the file exactly once: no
\* duplicate under another minted id and no stale record.
C21_OverlapStoresEachEventOnce ==
  OverlappingCallsReturned =>
    \A c \in Range(ClaimingCalendars(last.file)) :
       (\A k \in 1..Len(view[c]) : Falsy(view[c][k].id))
         => SameCollection(EventsNow(c, last.file), EventsOf(GetEventsInFile(c, last.file)))


====
